---- MODULE Spec2Model ----
(***************************************************************************)
(* Model of exabgp's BGP-LS Multi-Topology ID TLV codec                    *)
(* (src/exabgp/bgp/message/update/nlri/bgpls/tlvs/multitopology.py).       *)
(*                                                                         *)
(* The Python heap is modelled explicitly: every _Topology object lives in *)
(* `heap` and is referred to by its index (its identity), because          *)
(* _Topology defines no __eq__ and Python then compares entries by         *)
(* identity.  Every MTID object lives in `objs`.  `origin` is a history    *)
(* variable: the bytes an object was unpacked from (None for an object     *)
(* built with the constructor).  `ret` is the outcome of the last call.    *)
(*                                                                         *)
(* Bytes are sequences of integers 0..255, text is a TLA+ string, None is  *)
(* an optional record, a raised exception is the name of its class in the  *)
(* err field of an outcome ("none" when the call returned).                *)
(***************************************************************************)
EXTENDS Integers, Sequences, FiniteSets, TLC

VARIABLES heap, objs, origin, ret

vars == <<heap, objs, origin, ret>>

\* ------------------------------------------------------------------ bounds
\* longest byte string handed to unpack
MaxLen == 2
\* number of MTID objects alive at once
MaxObjs == 2
\* longest list of newly made _Topology objects handed to the constructor
MaxTops == 1

\* byte values used by the object-level specification: 0x05 and 0x10
Octets == {5, 16}
\* the _Topology values the caller makes itself: _Topology(1, 5)
DirectEntries == {[bits |-> 1, tid |-> 5]}
\* the `packed` arguments the caller hands to the constructor: the default
\* None, b'' and b'\x10\x05'
DirectPacked ==
  {[isNone |-> TRUE, bytes |-> <<>>], [isNone |-> FALSE, bytes |-> <<>>],
   [isNone |-> FALSE, bytes |-> <<16, 5>>]}

\* ------------------------------------------------------- program constants
\* payload >> (16-4)
ReservedShift == 12
\* payload & 0x0FFF
TidMask == 4095

\* ------------------------------------------------------------ Python values
None == [isNone |-> TRUE, bytes |-> <<>>]
Some(b) == [isNone |-> FALSE, bytes |-> b]

\* truth value of an optional bytes object: None and b'' are both false
Truthy(p) == ~p.isNone /\ Len(p.bytes) > 0

RECURSIVE Pow2(_)
Pow2(n) == IF n = 0 THEN 1 ELSE 2 * Pow2(n - 1)

ShiftRight(x, n) == x \div Pow2(n)

\* x & m for a mask m of the form 2^k - 1
AndMask(x, m) == x % (m + 1)

Digits == <<"0", "1", "2", "3", "4", "5", "6", "7", "8", "9", "A", "B", "C", "D", "E", "F">>

\* the digits of n in the given base, most significant first, as a sequence
RECURSIVE DigitSeq(_, _)
DigitSeq(n, base) ==
  IF n < base THEN <<Digits[n + 1]>>
  ELSE Append(DigitSeq(n \div base, base), Digits[(n % base) + 1])

\* ''.join(chars)
RECURSIVE Concat(_)
Concat(chars) == IF chars = <<>> THEN "" ELSE Head(chars) \o Concat(Tail(chars))

\* sep.join(parts)
RECURSIVE Join(_, _)
Join(sep, parts) ==
  IF parts = <<>> THEN ""
  ELSE IF Len(parts) = 1 THEN parts[1]
  ELSE parts[1] \o sep \o Join(sep, Tail(parts))

\* bin(n)[2:]
Bin(n) == DigitSeq(n, 2)

\* s[-4:]
Last4(s) == IF Len(s) <= 4 THEN s ELSE SubSeq(s, Len(s) - 3, Len(s))

\* '%d' % n for n >= 0
FormatD(n) == Concat(DigitSeq(n, 10))

\* '%02X' % n for n >= 0
Format02X(n) == IF n < 16 THEN "0" \o Digits[n + 1] ELSE Concat(DigitSeq(n, 16))

\* --------------------------------------------------------------- _Topology
Topology(bits, tid) == [bits |-> bits, tid |-> tid]

\* a rendering that forgets the left padding of the bits
Topology_json_unpadded(t) ==
  "{ \"bits\": \"" \o Concat(Bin(t.bits))
    \o "\", \"multi-topology-id\": " \o FormatD(t.tid) \o " }"

Topology_json(t) ==
  "{ \"bits\": \"" \o Concat(Last4(<<"0", "0", "0", "0">> \o Bin(t.bits)))
    \o "\", \"multi-topology-id\": " \o FormatD(t.tid) \o " }"

\* -------------------------------------------------------------------- MTID
MTID(topologies, packed) == [topologies |-> topologies, packed |-> packed]

\* struct.unpack('!H', chunk)[0]: needs exactly two bytes
StructUnpackH(chunk) ==
  IF Len(chunk) = 2
  THEN [err |-> "none", val |-> chunk[1] * 256 + chunk[2]]
  ELSE [err |-> "struct.error", val |-> 0]

\* data[i:i+2] with i counted from 0
Slice2(data, i) ==
  SubSeq(data, i + 1, IF i + 2 <= Len(data) THEN i + 2 ELSE Len(data))

\* a split that shifts by a whole byte and masks with 0x00FF
DecodeWord_bytewise(payload) ==
  Topology(ShiftRight(payload, 8), AndMask(payload, 255))

\* one 16-bit payload split into a _Topology
DecodeWord(payload) ==
  Topology(ShiftRight(payload, ReservedShift), AndMask(payload, TidMask))

\* a loop that puts each new entry at the wrong end of the list
RECURSIVE UnpackLoop_prepending(_, _)
UnpackLoop_prepending(data, i) ==
  IF i >= Len(data) THEN [err |-> "none", tids |-> <<>>]
  ELSE LET w == StructUnpackH(Slice2(data, i)) IN
       IF w.err # "none" THEN [err |-> w.err, tids |-> <<>>]
       ELSE LET rest == UnpackLoop_prepending(data, i + 2) IN
            IF rest.err # "none" THEN rest
            ELSE [err |-> "none", tids |-> rest.tids \o <<DecodeWord(w.val)>>]

\* the loop of unpack from offset i on: the _Topology values in order, or the
\* exception that ends the loop
RECURSIVE UnpackLoop(_, _)
UnpackLoop(data, i) ==
  IF i >= Len(data) THEN [err |-> "none", tids |-> <<>>]
  ELSE LET w == StructUnpackH(Slice2(data, i)) IN
       IF w.err # "none" THEN [err |-> w.err, tids |-> <<>>]
       ELSE LET rest == UnpackLoop(data, i + 2) IN
            IF rest.err # "none" THEN rest
            ELSE [err |-> "none", tids |-> <<DecodeWord(w.val)>> \o rest.tids]

\* an unpack that reads the complete words only and ignores a trailing byte
unpack_truncating(data) ==
  UnpackLoop(SubSeq(data, 1, Len(data) - (Len(data) % 2)), 0)

unpack(data) == UnpackLoop(data, 0)

\* the wire encoding of a list of entries: one big-endian word per entry
RECURSIVE EncodeEntries(_)
EncodeEntries(topologies) ==
  IF topologies = <<>> THEN <<>>
  ELSE LET t == heap[Head(topologies)]
           w == t.bits * Pow2(ReservedShift) + t.tid
       IN <<w \div 256, w % 256>> \o EncodeEntries(Tail(topologies))

\* a pack that makes up the bytes from the entries when there is no cache
pack_synthesising(self) ==
  IF Truthy(self.packed)
  THEN [err |-> "none", val |-> self.packed.bytes]
  ELSE [err |-> "none", val |-> EncodeEntries(self.topologies)]

pack(self) ==
  IF Truthy(self.packed)
  THEN [err |-> "none", val |-> self.packed.bytes]
  ELSE [err |-> "RuntimeError", val |-> <<>>]

MTID_str(self) ==
  LET p == pack(self) IN
  IF p.err # "none" THEN [err |-> p.err, val |-> ""]
  ELSE [err |-> "none",
        val |-> Join(":", [k \in 1..Len(p.val) |-> Format02X(p.val[k])])]

MTID_repr(self) == MTID_str(self)

\* hash(str(self)): Python's string hash is a function of the text alone, so
\* the hash value is represented by the text it is the hash of
MTID_hash(self) ==
  LET s == MTID_str(self) IN
  IF s.err # "none" THEN [err |-> s.err, val |-> [hash_of |-> ""]]
  ELSE [err |-> "none", val |-> [hash_of |-> s.val]]

MTID_len(self) ==
  IF self.packed.isNone THEN [err |-> "TypeError", val |-> 0]
  ELSE [err |-> "none", val |-> Len(self.packed.bytes)]

MTID_json(self) ==
  "[" \o Join(", ", [k \in 1..Len(self.topologies) |->
                       Topology_json(heap[self.topologies[k]])]) \o "]"

\* list == list: same length and pairwise equal elements; _Topology has no
\* __eq__, so two elements are equal exactly when they are the same object
ListEq(x, y) == Len(x) = Len(y) /\ \A k \in 1..Len(x) : x[k] = y[k]

MTID_eq(self, other) == [err |-> "none", val |-> ListEq(self.topologies, other.topologies)]

\* the method __neq__ (not the operator !=, which Python takes from __ne__)
MTID_neq(self, other) == [err |-> "none", val |-> ~ListEq(self.topologies, other.topologies)]

\* an ordering that compares the lengths of the entry lists
MTID_ge_by_length(self, other) ==
  [err |-> "none", val |-> Len(self.topologies) >= Len(other.topologies)]

MTID_lt(self, other) == [err |-> "RuntimeError", val |-> FALSE]
MTID_le(self, other) == [err |-> "RuntimeError", val |-> FALSE]
MTID_gt(self, other) == [err |-> "RuntimeError", val |-> FALSE]
MTID_ge(self, other) == [err |-> "RuntimeError", val |-> FALSE]

\* ----------------------------------------------------------------- inputs
RECURSIVE SeqsUpTo(_, _)
SeqsUpTo(S, n) ==
  IF n = 0 THEN {<<>>}
  ELSE LET shorter == SeqsUpTo(S, n - 1) IN
       shorter \cup {Append(s, x) : s \in {t \in shorter : Len(t) = n - 1}, x \in S}

Outcome(op, i, j, data, err, val) ==
  [op |-> op, i |-> i, j |-> j, data |-> data, err |-> err, val |-> val]

\* ----------------------------------------------------------------- actions
Init ==
  /\ heap = <<>>
  /\ objs = <<>>
  /\ origin = <<>>
  /\ ret = Outcome("init", 0, 0, <<>>, "none", 0)

\* o = MTID([_Topology(bits, tid), ...], packed): the entries are new objects
Construct(entries, packed) ==
  /\ Len(objs) < MaxObjs
  /\ heap' = heap \o entries
  /\ objs' = Append(objs,
                MTID([k \in 1..Len(entries) |-> Len(heap) + k], packed))
  /\ origin' = Append(origin, None)
  /\ ret' = Outcome("MTID", Len(objs) + 1, 0, <<>>, "none", 0)

\* o = MTID(objs[k].topologies, packed): the entries are those of objs[k]
ConstructFrom(k, packed) ==
  /\ Len(objs) < MaxObjs
  /\ objs' = Append(objs, MTID(objs[k].topologies, packed))
  /\ origin' = Append(origin, None)
  /\ ret' = Outcome("MTID", Len(objs) + 1, k, <<>>, "none", 0)
  /\ UNCHANGED heap

\* o = MTID.unpack(data)
Unpack(data) ==
  /\ Len(objs) < MaxObjs
  /\ LET r == unpack(data) IN
     IF r.err = "none"
     THEN /\ heap' = heap \o r.tids
          /\ objs' = Append(objs,
                        MTID([k \in 1..Len(r.tids) |-> Len(heap) + k], Some(data)))
          /\ origin' = Append(origin, Some(data))
          /\ ret' = Outcome("unpack", Len(objs) + 1, 0, data, "none", 0)
     ELSE /\ ret' = Outcome("unpack", 0, 0, data, r.err, 0)
          /\ UNCHANGED <<heap, objs, origin>>

\* a call of a method of objs[i] that takes no argument
Call(op, i, r) ==
  /\ ret' = Outcome(op, i, 0, <<>>, r.err, r.val)
  /\ UNCHANGED <<heap, objs, origin>>

\* a comparison of objs[i] with objs[j]
Compare(op, i, j, r) ==
  /\ ret' = Outcome(op, i, j, <<>>, r.err, r.val)
  /\ UNCHANGED <<heap, objs, origin>>

Pack(i) == Call("pack", i, pack(objs[i]))
Str(i) == Call("str", i, MTID_str(objs[i]))
Repr(i) == Call("repr", i, MTID_repr(objs[i]))
Hash(i) == Call("hash", i, MTID_hash(objs[i]))
LenOp(i) == Call("len", i, MTID_len(objs[i]))
Json(i) == Call("json", i, [err |-> "none", val |-> MTID_json(objs[i])])
Eq(i, j) == Compare("eq", i, j, MTID_eq(objs[i], objs[j]))
Neq(i, j) == Compare("neq", i, j, MTID_neq(objs[i], objs[j]))
Lt(i, j) == Compare("lt", i, j, MTID_lt(objs[i], objs[j]))
Le(i, j) == Compare("le", i, j, MTID_le(objs[i], objs[j]))
Gt(i, j) == Compare("gt", i, j, MTID_gt(objs[i], objs[j]))
Ge(i, j) == Compare("ge", i, j, MTID_ge(objs[i], objs[j]))

Next ==
  \/ \E entries \in SeqsUpTo(DirectEntries, MaxTops), packed \in DirectPacked :
       Construct(entries, packed)
  \/ \E k \in 1..Len(objs), packed \in DirectPacked : ConstructFrom(k, packed)
  \/ \E data \in SeqsUpTo(Octets, MaxLen) : Unpack(data)
  \/ \E i \in 1..Len(objs) : Pack(i)
  \/ \E i \in 1..Len(objs) : Str(i)
  \/ \E i \in 1..Len(objs) : Repr(i)
  \/ \E i \in 1..Len(objs) : Hash(i)
  \/ \E i \in 1..Len(objs) : LenOp(i)
  \/ \E i \in 1..Len(objs) : Json(i)
  \/ \E i \in 1..Len(objs), j \in 1..Len(objs) : Eq(i, j)
  \/ \E i \in 1..Len(objs), j \in 1..Len(objs) : Neq(i, j)
  \/ \E i \in 1..Len(objs), j \in 1..Len(objs) : Lt(i, j)
  \/ \E i \in 1..Len(objs), j \in 1..Len(objs) : Le(i, j)
  \/ \E i \in 1..Len(objs), j \in 1..Len(objs) : Gt(i, j)
  \/ \E i \in 1..Len(objs), j \in 1..Len(objs) : Ge(i, j)

Spec == Init /\ [][Next]_vars

\* ------------------------------------------- one unpack over every 16-bit word
WordBytes(w) == <<w \div 256, w % 256>>

\* what follows the word: nothing, one more byte, one more word (0x1005)
Tails == {<<>>, <<16>>, <<16, 5>>}

\* b'', every single byte, and every 16-bit word followed by each tail
WordInputs ==
  SeqsUpTo(0..255, 1) \cup {WordBytes(w) \o t : w \in 0..65535, t \in Tails}

NextWord ==
  \/ ret.op = "init" /\ \E data \in WordInputs : Unpack(data)
  \/ \E i \in 1..Len(objs) : Pack(i)
  \/ \E i \in 1..Len(objs) : Json(i)

SpecWord == Init /\ [][NextWord]_vars

\* ------------------------------------------------------------------ claims
\* the entries of objs[i], as values
EntriesOf(i) == [k \in 1..Len(objs[i].topologies) |-> heap[objs[i].topologies[k]]]

\* the k-th big-endian word of a byte string, k counted from 1
WordAt(b, k) == b[2 * k - 1] * 256 + b[2 * k]

IsOdd(n) == n % 2 = 1

\* C1: for every even-length byte sequence b, the empty one included,
\* MTID.unpack(b).pack() succeeds and returns exactly b.
RoundTrip ==
  (ret.op = "pack" /\ ~origin[ret.i].isNone)
    => (ret.err = "none" /\ ret.val = origin[ret.i].bytes)

\* two fields have the same content: same number of entries and, position by
\* position, the same reserved_bits and the same identifier
SameContent(i, j) ==
  /\ Len(EntriesOf(i)) = Len(EntriesOf(j))
  /\ \A k \in 1..Len(EntriesOf(i)) :
       /\ EntriesOf(i)[k].bits = EntriesOf(j)[k].bits
       /\ EntriesOf(i)[k].tid = EntriesOf(j)[k].tid

\* C2: a == b is true if and only if the two entry sequences have the same
\* length and, at every position, the same reserved_bits and identifier.
StructuralEquality ==
  ret.op = "eq" => (ret.err = "none" /\ (ret.val <=> SameContent(ret.i, ret.j)))

\* C3: unpack of an odd-length byte sequence ends in a decode error and
\* returns no field: no field exists afterwards, and no entry either.
OddLengthRejected ==
  (ret.op = "unpack" /\ IsOdd(Len(ret.data)))
    => (ret.err = "struct.error" /\ ret.i = 0 /\ objs = <<>> /\ heap = <<>>)

OddLengthRejectedWitness ==
  ret.op = "unpack" /\ Len(ret.data) = 3 /\ ret.err = "struct.error"

\* C4: for every 16-bit word w the decoded entry has reserved_bits = w >> 12
\* (in 0..15) and identifier = w & 0x0FFF (in 0..4095), the two rebuild w, and
\* the word is never rejected, whatever its reserved bits.
BitSplit ==
  (ret.op = "unpack" /\ ~IsOdd(Len(ret.data)) /\ Len(ret.data) > 0)
    => /\ ret.err = "none"
       /\ LET w == WordAt(ret.data, 1)
              e == EntriesOf(ret.i)[1]
          IN /\ e.bits = w \div 4096
             /\ e.bits \in 0..15
             /\ e.tid = w % 4096
             /\ e.tid \in 0..4095
             /\ e.bits * 4096 + e.tid = w

BitSplitWitness ==
  /\ ret.op = "unpack" /\ ret.err = "none"
  /\ ret.data = <<171, 205>>
  /\ EntriesOf(ret.i) = <<[bits |-> 10, tid |-> 3021]>>

\* C5: a field unpacked from an even-length byte sequence b holds exactly
\* len(b)/2 entries, and its i-th entry is the decoding of the i-th word of b.
CountAndOrder ==
  \A i \in 1..Len(objs) :
    ~origin[i].isNone =>
      /\ 2 * Len(objs[i].topologies) = Len(origin[i].bytes)
      /\ \A k \in 1..Len(objs[i].topologies) :
           EntriesOf(i)[k] = DecodeWord(WordAt(origin[i].bytes, k))

CountAndOrderWitness ==
  /\ Len(objs) = 1 /\ ~origin[1].isNone
  /\ origin[1].bytes = <<0, 7, 16, 5>>
  /\ EntriesOf(1) = <<[bits |-> 0, tid |-> 7], [bits |-> 1, tid |-> 5]>>

\* C6: on a field built by the constructor with no raw cache, pack(), hash()
\* and the text rendering all fail with an explicit error; none returns bytes
\* or text made up from the entries.
UnencodableValue ==
  (ret.op \in {"pack", "str", "repr", "hash"} /\ objs[ret.i].packed.isNone)
    => ret.err = "RuntimeError"

UnencodableValueWitness ==
  /\ ret.op = "hash" /\ ret.err = "RuntimeError"
  /\ objs[ret.i].packed.isNone /\ origin[ret.i].isNone
  /\ Len(objs[ret.i].topologies) = 1

\* C7: each of a < b, a <= b, a > b, a >= b fails with an error and never
\* yields a boolean, whatever the two fields are.
OrderingRejected ==
  ret.op \in {"lt", "le", "gt", "ge"} => ret.err = "RuntimeError"

OrderingRejectedWitness ==
  /\ ret.op = "ge" /\ ret.err = "RuntimeError" /\ ret.i # ret.j
  /\ ~objs[ret.i].packed.isNone /\ objs[ret.j].packed.isNone

\* one decimal or binary digit as text
DigitText(d) ==
  CASE d = 0 -> "0" [] d = 1 -> "1" [] d = 2 -> "2" [] d = 3 -> "3" [] d = 4 -> "4"
    [] d = 5 -> "5" [] d = 6 -> "6" [] d = 7 -> "7" [] d = 8 -> "8" [] d = 9 -> "9"

\* t in 0..9999 in decimal, without leading zeros
DecimalText(t) ==
  IF t < 10 THEN DigitText(t)
  ELSE IF t < 100 THEN DigitText(t \div 10) \o DigitText(t % 10)
  ELSE IF t < 1000
    THEN DigitText(t \div 100) \o DigitText((t \div 10) % 10) \o DigitText(t % 10)
  ELSE DigitText(t \div 1000) \o DigitText((t \div 100) % 10)
         \o DigitText((t \div 10) % 10) \o DigitText(t % 10)

\* the four binary digits of r in 0..15, most significant first
FourBits(r) ==
  DigitText((r \div 8) % 2) \o DigitText((r \div 4) % 2)
    \o DigitText((r \div 2) % 2) \o DigitText(r % 2)

ExpectedEntryText(e) ==
  "{ \"bits\": \"" \o FourBits(e.bits) \o "\", \"multi-topology-id\": "
    \o DecimalText(e.tid) \o " }"

\* the renderings of the first n entries, in order, separated by ", "
RECURSIVE ExpectedItems(_, _)
ExpectedItems(es, n) ==
  IF n = 0 THEN ""
  ELSE IF n = 1 THEN ExpectedEntryText(es[1])
  ELSE ExpectedItems(es, n - 1) \o ", " \o ExpectedEntryText(es[n])

\* C8: an entry renders with a "bits" string of exactly 4 binary digits whose
\* value is reserved_bits and a "multi-topology-id" equal to the identifier
\* in decimal; a field renders as the bracketed list of its entries'
\* renderings, one per entry, in entry order.
StructuredRendering ==
  ret.op = "json" =>
    /\ ret.err = "none"
    /\ ret.val = "[" \o ExpectedItems(EntriesOf(ret.i), Len(EntriesOf(ret.i))) \o "]"

StructuredRenderingWitness ==
  /\ ret.op = "json"
  /\ origin[ret.i].bytes = <<85, 5, 16, 5>>
  /\ ret.val = "[{ \"bits\": \"0101\", \"multi-topology-id\": 1285 }, "
                 \o "{ \"bits\": \"0001\", \"multi-topology-id\": 5 }]"

\* C9: if a == b is true then hash(a) and hash(b) both succeed and are equal.
EqImpliesSameHash ==
  (ret.op = "eq" /\ ret.err = "none" /\ ret.val)
    => /\ MTID_hash(objs[ret.i]).err = "none"
       /\ MTID_hash(objs[ret.j]).err = "none"
       /\ MTID_hash(objs[ret.i]).val = MTID_hash(objs[ret.j]).val

\* C10: every field whose raw cache is present has a cache that is exactly
\* the wire encoding of its entries.
CacheCoherent ==
  \A i \in 1..Len(objs) :
    ~objs[i].packed.isNone => objs[i].packed.bytes = EncodeEntries(objs[i].topologies)

====
